---- MODULE Spec2Model ----
(***************************************************************************)
(* A model of pysh/filters.py: IoSpec, Filter (invoke, iterate, pipe),     *)
(* pipe_by_stream, Function (the wrapper), slurp and to_stdout.            *)
(*                                                                         *)
(* Python values are records tagged by t.  A stream object (io.BytesIO,    *)
(* sys.stdout.buffer) lives in `heap` and is referred to by its index.     *)
(* A thunk is a closure: a record of its kind k and captured variables.    *)
(* Every call site runs one Python call stack, one frame per active thunk. *)
(***************************************************************************)
EXTENDS Integers, Sequences, FiniteSets, TLC

VARIABLES
    pipeline,   \* the Filter the program has built and hands to an entry point
    optimized,  \* whether the interpreter strips assert statements (python -O)
    heap,       \* the stream objects allocated so far, by handle
    site        \* per call site: the operation in progress and its call stack

vars == <<pipeline, optimized, heap, site>>

\* ------------------------------------------------------------------ bounds

MaxArgs == 2          \* longest caller-supplied argument list
MaxInvocations == 2   \* invocations of the shared pipeline per call site

\* --------------------------------------------------------------- constants

NL == 10              \* b'\n'
STDOUT == 1           \* the handle of sys.stdout.buffer

Bytes == {NL, 97}
Kinds == {"none", "stream", "iter", "bytes"}
Sites == {"s1", "s2"}

RECURSIVE SeqsUpTo(_, _)
SeqsUpTo(S, n) ==
    IF n = 0 THEN {<<>>}
    ELSE LET prev == SeqsUpTo(S, n - 1)
         IN  prev \cup {Append(s, x) : s \in {p \in prev : Len(p) = n - 1}, x \in S}

ArgChoices == SeqsUpTo(Bytes, MaxArgs)
Sources == {<<97>>, <<NL, 97>>}

\* ----------------------------------------------------------- Python values

None == [t |-> "None"]
Stream(h) == [t |-> "stream", h |-> h]
PyBytes(b) == [t |-> "bytes", b |-> b]
PyIter(b) == [t |-> "iter", b |-> b]
Absent == [t |-> "absent"]          \* an attribute that was never set
Arg(v) == [t |-> "arg", v |-> v]     \* one caller-supplied argument

Returned(v) == [tag |-> "return", value |-> v]
Raised(e) == [tag |-> "raise", exc |-> e]
NoOutcome == [tag |-> "none"]

\* ------------------------------------------------------------- io.BytesIO

\* The heap is a sequence of stream objects; a slot whose object was released
\* is free and is the first to be reused, as the allocator reuses memory.
FreeSlot == [data |-> <<>>, pos |-> 0, owner |-> "free"]

Alloc(hp, s) ==
    LET free == {i \in DOMAIN hp : hp[i].owner = "free"}
    IN  IF free = {}
        THEN [heap |-> Append(hp, s), h |-> Len(hp) + 1]
        ELSE LET i == CHOOSE j \in free : \A k \in free : j <= k
             IN  [heap |-> [hp EXCEPT ![i] = s], h |-> i]

\* The last reference to a stream object goes away.
Release(hp, v) == IF v.t = "stream" THEN [hp EXCEPT ![v.h] = FreeSlot] ELSE hp

\* Variant: one buffer kept by the closure and handed to every invocation.
io_BytesIO_shared(hp) ==
    IF \E i \in DOMAIN hp : hp[i].owner = "piped"
    THEN [heap |-> hp, h |-> CHOOSE i \in DOMAIN hp : hp[i].owner = "piped"]
    ELSE Alloc(hp, [data |-> <<>>, pos |-> 0, owner |-> "piped"])

\* buf = io.BytesIO(): a new, empty object; h is its handle.
io_BytesIO(hp) == Alloc(hp, [data |-> <<>>, pos |-> 0, owner |-> "piped"])

\* s.write(b): overwrite from the position, extend as needed, advance.
BytesIO_write(s, b) ==
    LET n == Len(b)
        pre == SubSeq(s.data, 1, s.pos)
        post == SubSeq(s.data, s.pos + n + 1, Len(s.data))
    IN  [s EXCEPT !.data = pre \o b \o post, !.pos = s.pos + n]

\* s.read(): everything from the position to the end; the position moves there.
BytesIO_read(s) ==
    [data |-> SubSeq(s.data, s.pos + 1, Len(s.data)),
     stream |-> [s EXCEPT !.pos = Len(s.data)]]

\* Variant: the rewind forgotten.
BytesIO_seek_noop(s, p) == s

\* s.seek(p)
BytesIO_seek(s, p) == [s EXCEPT !.pos = p]

\* Variant: a single trailing newline stripped.
rstrip_one(b) ==
    IF b # <<>> /\ b[Len(b)] = NL THEN SubSeq(b, 1, Len(b) - 1) ELSE b

\* b.rstrip(b'\n')
RECURSIVE rstrip(_)
rstrip(b) ==
    IF b # <<>> /\ b[Len(b)] = NL THEN rstrip(SubSeq(b, 1, Len(b) - 1)) ELSE b

\* ------------------------------------------------------------------ IoSpec

IoSpec(type, required_) == [type |-> type, required_ |-> required_]

\* Variant: the stored flag alone.
required_flag_only(spec) == spec.required_

\* IoSpec.required
required(spec) == spec.required_ /\ spec.type # "none"

AllSpecs == {IoSpec(k, r) : k \in Kinds, r \in BOOLEAN}

\* ------------------------------------------------------------------ Filter

Filter(input, output, thunk) == [input |-> input, output |-> output, thunk |-> thunk]

\* Variant: the two stages captured the other way round.
pipe_by_stream_swapped(left, right) == [k |-> "piped", left |-> right, right |-> left]

\* The closure `piped`, capturing left and right.
pipe_by_stream(left, right) == [k |-> "piped", left |-> left, right |-> right]

\* `assert False`: AssertionError, or nothing at all under python -O.
AssertFalse == IF optimized THEN NoOutcome ELSE Raised("AssertionError")

\* Variant: no check of the kinds.
Filter__or__unchecked(self, other) ==
    Returned(Filter(self.input, other.output, pipe_by_stream(self, other)))

\* Filter.__or__: the outcome of self | other.
Filter__or__(self, other) ==
    IF self.output.type # other.input.type THEN Raised("RuntimeError")
    ELSE IF self.output.type = "none" THEN Raised("RuntimeError")
    ELSE IF self.output.type = "stream"
         THEN Returned(Filter(self.input, other.output, pipe_by_stream(self, other)))
    ELSE IF self.output.type = "iter" THEN Raised("NotImplementedError")
    ELSE IF AssertFalse # NoOutcome THEN AssertFalse
    ELSE Raised("UnboundLocalError")   \* `thunk` was never assigned

\* Variant: the output spec not looked at.
Filter__call__runs_stream(self) ==
    IF required(self.input) THEN "RuntimeError" ELSE "thunk"

\* Filter.__call__: which branch is taken.
Filter__call__(self) ==
    IF required(self.input) THEN "RuntimeError"
    ELSE IF self.output.type \in {"iter", "bytes"} \/ ~required(self.output) THEN "thunk"
    ELSE IF self.output.type = "stream" THEN "NotImplementedError"
    ELSE "assert"

\* The module-level terminal stage of slurp.
slurp_filter == Filter(IoSpec("stream", TRUE), IoSpec("bytes", TRUE), [k |-> "slurp"])

\* Variant: the input guard missing.
to_stdout_check_output_only(filter) ==
    IF filter.output.type # "stream" THEN "RuntimeError" ELSE "thunk"

\* to_stdout: its two guards.
to_stdout_check(filter) ==
    IF required(filter.input) THEN "RuntimeError"
    ELSE IF filter.output.type # "stream" THEN "RuntimeError"
    ELSE "thunk"

\* ---------------------------------------------------------------- Function

\* A plain function object; the decorators set its attributes.
Def(name) == [name |-> name, input |-> Absent, output |-> Absent]
decorate_input(type, required_, func) == [func EXCEPT !.input = IoSpec(type, required_)]
decorate_output(type, required_, func) == [func EXCEPT !.output = IoSpec(type, required_)]

getattr(func, attr, default) == IF func[attr] = Absent THEN default ELSE func[attr]

\* Function.__init__
Function(func) ==
    [func |-> func.name,
     input |-> getattr(func, "input", IoSpec("none", TRUE)),
     output |-> getattr(func, "output", IoSpec("none", TRUE))]

pass_input(input) == input.type \in {"stream", "iter", "bytes"}
pass_output(output) == output.type \in {"stream"}

\* Function.__call__: the Filter around one of the four lambdas.
Function__call__(self, args) ==
    LET shape == IF pass_input(self.input) /\ pass_output(self.output) THEN "input_output"
                 ELSE IF pass_input(self.input) THEN "input"
                 ELSE IF pass_output(self.output) THEN "output"
                 ELSE "neither"
    IN  Filter(self.input, self.output,
               [k |-> "lambda", shape |-> shape, self |-> self, args |-> args])

\* The number of parameters each lambda declares.
LambdaArity(shape) == IF shape = "neither" THEN 0 ELSE 2

\* The argument list the lambda hands to self.func.
LambdaArgv(thunk, input, output) ==
    (IF thunk.shape \in {"input_output", "input"} THEN <<input>> ELSE <<>>)
    \o (IF thunk.shape \in {"input_output", "output"} THEN <<output>> ELSE <<>>)
    \o [i \in 1..Len(thunk.args) |-> Arg(thunk.args[i])]

\* ------------------------------------------------- the filters a run can use

\* f, declared with every input and output spec, and f undecorated.
FuncsF ==
    {Def("f")} \cup
    {decorate_output(o.type, o.required_, decorate_input(i.type, i.required_, Def("f"))) :
        i \in AllSpecs, o \in AllSpecs}

\* g: a stream-to-stream stage.
StageB ==
    {Function__call__(
        Function(decorate_output("stream", TRUE, decorate_input("stream", TRUE, Def("g")))),
        args) : args \in {<<>>, <<NL, NL>>}}

\* h, declared with every input spec: the right-hand operands of `|`.
StageH ==
    {Function__call__(
        Function(decorate_output(o, TRUE, decorate_input(i.type, i.required_, Def("h")))),
        <<97>>) : i \in AllSpecs, o \in Kinds}

Others == StageB \cup StageH \cup {slurp_filter}

\* The filters a wrapper call on f can return, and those that write a stream.
Prims == {Function__call__(Function(func), args) : func \in FuncsF, args \in ArgChoices}
StageA == {p \in Prims : p.output.type = "stream"}
StageC == {p \in StageH : p.input.type = "stream"}

\* The filters self | other over two sets of operands, where it returns one.
Pipes(lefts, rights) ==
    {r.value : r \in {x \in {Filter__or__(a, b) : a \in lefts, b \in rights} :
                          x.tag = "return"}}

\* A | B | C in both groupings.
Triples == Pipes(Pipes(StageA, StageB), StageC) \cup Pipes(StageA, Pipes(StageB, StageC))

\* The pipelines several call sites share.
ConcStageA ==
    {p \in StageA : /\ p.input \in {IoSpec("stream", TRUE), IoSpec("none", TRUE)}
                    /\ p.output.required_
                    /\ Len(p.thunk.args) = 1}
ConcPipelines == Pipes(ConcStageA, StageB)

\* ------------------------------------------------------------- call stacks

IdleSite ==
    [status |-> "idle", op |-> "none", a |-> None, other |-> None,
     outcome |-> NoOutcome, stack |-> <<>>, trace |-> <<>>, n |-> 0,
     src |-> None, sink |-> None]

EntryPc(thunk) ==
    IF thunk.k = "piped" THEN "buf" ELSE IF thunk.k = "lambda" THEN "func" ELSE "slurp"

Frame(thunk, input, output, path) ==
    [thunk |-> thunk, input |-> input, output |-> output, path |-> path,
     pc |-> EntryPc(thunk), buf |-> None, data |-> <<>>, nw |-> 0, ret |-> None]

\* Who runs a thunk: the wrapped function's name, or the closure's kind.
ThunkName(thunk) == IF thunk.k = "lambda" THEN thunk.self.func ELSE thunk.k

Top(s) == s.stack[Len(s.stack)]
SetTop(s, fr) == [s EXCEPT !.stack[Len(s.stack)] = fr]
Log(s, e) == [s EXCEPT !.trace = Append(@, e)]
Done(s, outcome) == [s EXCEPT !.status = "done", !.stack = <<>>, !.outcome = outcome]

\* thunk(input, output): a lambda declaring no parameters cannot take the two
\* arguments (TypeError, which no caller catches); otherwise a new frame.
InvokeThunk(s, thunk, input, output, path) ==
    LET e == [ev |-> "thunk", who |-> ThunkName(thunk), path |-> path, thunk |-> thunk,
              input |-> input, output |-> output]
    IN  IF thunk.k = "lambda" /\ LambdaArity(thunk.shape) # 2
        THEN Done(Log(s, e), Raised("TypeError"))
        ELSE [Log(s, e) EXCEPT !.status = "running",
                               !.stack = Append(@, Frame(thunk, input, output, path))]

\* The top frame returns v to its caller; to_stdout drops the value.
ReturnFrom(s, v) ==
    LET rest == SubSeq(s.stack, 1, Len(s.stack) - 1)
        s1 == Log(s, [ev |-> "return", who |-> ThunkName(Top(s).thunk), path |-> Top(s).path,
                        value |-> v])
    IN  IF rest = <<>>
        THEN Done(s1, IF s.op = "to_stdout" THEN Returned(None) ELSE Returned(v))
        ELSE [s1 EXCEPT !.stack = [rest EXCEPT ![Len(rest)].ret = v]]

\* Filter.__call__ on filter f.
FilterCall(s, f) ==
    LET d == Filter__call__(f)
    IN  IF d = "thunk" THEN InvokeThunk(s, f.thunk, None, None, <<>>)
        ELSE IF d = "assert"
             THEN Done(s, IF AssertFalse = NoOutcome THEN Returned(None) ELSE AssertFalse)
        ELSE Done(s, Raised(d))

Running(t, k, pc) ==
    /\ site[t].status = "running"
    /\ Top(site[t]).thunk.k = k
    /\ Top(site[t]).pc = pc

\* ------------------------------------------------ the wrapped function

\* What the wrapped function does with its arguments is the caller's code.  The
\* model's function reads its source to the end when it is given one, writes
\* what it read followed by its own arguments to its sink when it is given one,
\* a byte per write, and returns that payload when its output is declared as
\* bytes or iter.
FuncSource(fr) == IF fr.thunk.shape \in {"input_output", "input"} THEN fr.input ELSE None
FuncSink(fr) == IF fr.thunk.shape \in {"input_output", "output"} THEN fr.output ELSE None
FuncWritePc(fr, data, nw) ==
    IF FuncSink(fr).t = "stream" /\ nw < Len(data) THEN "write" ELSE "return"
FuncResult(type, data) ==
    IF type = "bytes" THEN PyBytes(data) ELSE IF type = "iter" THEN PyIter(data) ELSE None

\* ----------------------------------------------------------------- actions

\* filter(func)(*args): wrap a function and call the wrapper.
FunctionCall(t) ==
    /\ site[t].status = "idle"
    /\ site[t].op = "none"
    /\ \E func \in FuncsF, args \in ArgChoices :
         LET r == Function__call__(Function(func), args)
         IN  /\ pipeline' = r
             /\ site' = [site EXCEPT ![t].op = "Function", ![t].a = pipeline,
                                     ![t].outcome = Returned(r)]
    /\ UNCHANGED <<optimized, heap>>

\* pipeline | other, of two filters that are not themselves pipes.
Or(t) ==
    /\ site[t].status = "idle"
    /\ pipeline.thunk.k # "piped"
    /\ \E other \in Others :
         LET r == Filter__or__(pipeline, other)
         IN  /\ pipeline' = IF r.tag = "return" THEN r.value ELSE pipeline
             /\ site' = [site EXCEPT ![t].op = "or", ![t].a = pipeline,
                                     ![t].other = other, ![t].outcome = r,
                                     ![t].status = IF r.tag = "return" THEN "idle" ELSE "done"]
    /\ UNCHANGED <<optimized, heap>>

\* pipeline()
Call(t) ==
    /\ site[t].status = "idle"
    /\ site' = [site EXCEPT ![t] =
                   FilterCall([site[t] EXCEPT !.op = "call", !.a = pipeline], pipeline)]
    /\ UNCHANGED <<pipeline, optimized, heap>>

\* iter(pipeline)
Iter(t) ==
    /\ site[t].status = "idle"
    /\ LET s == [site[t] EXCEPT !.op = "iter", !.a = pipeline]
       IN  site' = [site EXCEPT ![t] =
                       IF pipeline.output.type # "iter" THEN Done(s, Raised("RuntimeError"))
                       ELSE FilterCall(s, pipeline)]
    /\ UNCHANGED <<pipeline, optimized, heap>>

\* slurp(pipeline)
Slurp(t) ==
    /\ site[t].status = "idle"
    /\ LET s == [site[t] EXCEPT !.op = "slurp", !.a = pipeline, !.other = slurp_filter]
           r == Filter__or__(pipeline, slurp_filter)
       IN  site' = [site EXCEPT ![t] =
                       IF r.tag = "return" THEN FilterCall(s, r.value) ELSE Done(s, r)]
    /\ UNCHANGED <<pipeline, optimized, heap>>

\* to_stdout(pipeline)
ToStdout(t) ==
    /\ site[t].status = "idle"
    /\ LET s == [site[t] EXCEPT !.op = "to_stdout", !.a = pipeline]
           d == to_stdout_check(pipeline)
       IN  site' = [site EXCEPT ![t] =
                       IF d = "thunk"
                       THEN InvokeThunk(s, pipeline.thunk, None, Stream(STDOUT), <<>>)
                       ELSE Done(s, Raised(d))]
    /\ UNCHANGED <<pipeline, optimized, heap>>

\* pipeline.thunk(source, sink), as a caller holding the Filter invokes its
\* action: a source stream holding X where the input kind is not none, a new
\* sink stream where the output kind is not none, absent otherwise.  The
\* caller drops the streams of its previous invocation.
ThunkStart(t, X) ==
    LET heap0 == Release(Release(heap, site[t].src), site[t].sink)
        a1 == IF pipeline.input.type # "none"
              THEN Alloc(heap0, [data |-> X, pos |-> 0, owner |-> "caller"])
              ELSE [heap |-> heap0, h |-> 0]
        src == IF pipeline.input.type # "none" THEN Stream(a1.h) ELSE None
        a2 == IF pipeline.output.type # "none"
              THEN Alloc(a1.heap, [data |-> <<>>, pos |-> 0, owner |-> "caller"])
              ELSE [heap |-> a1.heap, h |-> 0]
        sink == IF pipeline.output.type # "none" THEN Stream(a2.h) ELSE None
        s == [site[t] EXCEPT !.op = "thunk", !.a = pipeline, !.n = @ + 1,
                             !.trace = <<>>, !.outcome = NoOutcome,
                             !.src = src, !.sink = sink]
    IN  /\ heap' = a2.heap
        /\ site' = [site EXCEPT ![t] = InvokeThunk(s, pipeline.thunk, src, sink, <<>>)]
        /\ UNCHANGED <<pipeline, optimized>>

CallThunk(t) ==
    /\ site[t].status = "idle"
    /\ \E X \in Sources : ThunkStart(t, X)

\* The same, any number of times from any call site.
Invoke(t) ==
    /\ site[t].status \in {"idle", "done"}
    /\ site[t].n < MaxInvocations
    /\ \E X \in Sources : ThunkStart(t, X)

\* piped, line `buf = io.BytesIO()`
PipedBytesIO(t) ==
    /\ Running(t, "piped", "buf")
    /\ LET fr == Top(site[t])
           r == io_BytesIO(heap)
       IN  /\ heap' = r.heap
           /\ site' = [site EXCEPT ![t] =
                  Log(SetTop(site[t], [fr EXCEPT !.buf = Stream(r.h), !.pc = "left"]),
                      [ev |-> "BytesIO", who |-> ThunkName(fr.thunk), path |-> fr.path, h |-> r.h])]
    /\ UNCHANGED <<pipeline, optimized>>

\* piped, line `left.thunk(input, buf)`
PipedCallLeft(t) ==
    /\ Running(t, "piped", "left")
    /\ LET fr == Top(site[t])
       IN  site' = [site EXCEPT ![t] =
                  InvokeThunk(SetTop(site[t], [fr EXCEPT !.pc = "seek"]),
                              fr.thunk.left.thunk, fr.input, fr.buf,
                              Append(fr.path, "L"))]
    /\ UNCHANGED <<pipeline, optimized, heap>>

\* piped, line `buf.seek(0)`
PipedSeek(t) ==
    /\ Running(t, "piped", "seek")
    /\ LET fr == Top(site[t])
       IN  /\ heap' = [heap EXCEPT ![fr.buf.h] = BytesIO_seek(@, 0)]
           /\ site' = [site EXCEPT ![t] =
                  Log(SetTop(site[t], [fr EXCEPT !.pc = "right"]),
                      [ev |-> "seek", who |-> ThunkName(fr.thunk), path |-> fr.path, h |-> fr.buf.h])]
    /\ UNCHANGED <<pipeline, optimized>>

\* piped, line `return right.thunk(buf, output)`: the call
PipedCallRight(t) ==
    /\ Running(t, "piped", "right")
    /\ LET fr == Top(site[t])
       IN  site' = [site EXCEPT ![t] =
                  InvokeThunk(SetTop(site[t], [fr EXCEPT !.pc = "return"]),
                              fr.thunk.right.thunk, fr.buf, fr.output,
                              Append(fr.path, "R"))]
    /\ UNCHANGED <<pipeline, optimized, heap>>

\* piped, line `return right.thunk(buf, output)`: the return; the local buf
\* goes out of scope.
PipedReturn(t) ==
    /\ Running(t, "piped", "return")
    /\ heap' = Release(heap, Top(site[t]).buf)
    /\ site' = [site EXCEPT ![t] = ReturnFrom(site[t], Top(site[t]).ret)]
    /\ UNCHANGED <<pipeline, optimized>>

\* A lambda of Function.__call__ calls self.func with the handles it passes on.
LambdaFunc(t) ==
    /\ Running(t, "lambda", "func")
    /\ LET fr == Top(site[t])
           data == fr.thunk.args
           pc == IF FuncSource(fr).t = "stream" THEN "read" ELSE FuncWritePc(fr, data, 0)
       IN  site' = [site EXCEPT ![t] =
                  Log(SetTop(site[t], [fr EXCEPT !.data = data, !.pc = pc]),
                      [ev |-> "func", who |-> ThunkName(fr.thunk), path |-> fr.path, func |-> fr.thunk.self.func,
                       argv |-> LambdaArgv(fr.thunk, fr.input, fr.output)])]
    /\ UNCHANGED <<pipeline, optimized, heap>>

\* The wrapped function reads its source.
FuncRead(t) ==
    /\ Running(t, "lambda", "read")
    /\ LET fr == Top(site[t])
           h == FuncSource(fr).h
           r == BytesIO_read(heap[h])
           data == r.data \o fr.data
       IN  /\ heap' = [heap EXCEPT ![h] = r.stream]
           /\ site' = [site EXCEPT ![t] =
                  Log(SetTop(site[t], [fr EXCEPT !.data = data,
                                                 !.pc = FuncWritePc(fr, data, 0)]),
                      [ev |-> "read", who |-> ThunkName(fr.thunk), path |-> fr.path, h |-> h, data |-> r.data])]
    /\ UNCHANGED <<pipeline, optimized>>

\* The wrapped function writes the next byte to its sink.
FuncWrite(t) ==
    /\ Running(t, "lambda", "write")
    /\ LET fr == Top(site[t])
           h == FuncSink(fr).h
           b == <<fr.data[fr.nw + 1]>>
       IN  /\ heap' = [heap EXCEPT ![h] = BytesIO_write(@, b)]
           /\ site' = [site EXCEPT ![t] =
                  Log(SetTop(site[t], [fr EXCEPT !.nw = @ + 1,
                                                 !.pc = FuncWritePc(fr, fr.data, fr.nw + 1)]),
                      [ev |-> "write", who |-> ThunkName(fr.thunk), path |-> fr.path, h |-> h, data |-> b])]
    /\ UNCHANGED <<pipeline, optimized>>

\* The wrapped function returns, and the lambda returns its value.
FuncReturn(t) ==
    /\ Running(t, "lambda", "return")
    /\ LET fr == Top(site[t])
       IN  site' = [site EXCEPT ![t] =
                  ReturnFrom(site[t], FuncResult(fr.thunk.self.output.type, fr.data))]
    /\ UNCHANGED <<pipeline, optimized, heap>>

\* slurp_filter's lambda: input.read().rstrip(b'\n')
SlurpLambda(t) ==
    /\ Running(t, "slurp", "slurp")
    /\ LET fr == Top(site[t])
       IN  IF fr.input.t # "stream"
           THEN /\ site' = [site EXCEPT ![t] = Done(site[t], Raised("AttributeError"))]
                /\ UNCHANGED heap
           ELSE LET r == BytesIO_read(heap[fr.input.h])
                IN  /\ heap' = [heap EXCEPT ![fr.input.h] = r.stream]
                    /\ site' = [site EXCEPT ![t] =
                           ReturnFrom(Log(site[t], [ev |-> "read", who |-> ThunkName(fr.thunk), path |-> fr.path,
                                                    h |-> fr.input.h, data |-> r.data]),
                                      PyBytes(rstrip(r.data)))]
    /\ UNCHANGED <<pipeline, optimized>>

\* ---------------------------------------------------------- specifications

InitHeap == <<[data |-> <<>>, pos |-> 0, owner |-> "sys"]>>

\* One call site: after import only slurp_filter exists; the program wraps a
\* function, pipes, and hands the result to one entry point.
Init ==
    /\ pipeline = slurp_filter
    /\ optimized \in BOOLEAN
    /\ heap = InitHeap
    /\ site = [t \in Sites |-> IdleSite]

Next ==
    \E t \in {"s1"} :
        \/ FunctionCall(t)
        \/ Or(t)
        \/ Call(t)
        \/ Iter(t)
        \/ Slurp(t)
        \/ ToStdout(t)
        \/ CallThunk(t)
        \/ PipedBytesIO(t)
        \/ PipedCallLeft(t)
        \/ PipedSeek(t)
        \/ PipedCallRight(t)
        \/ PipedReturn(t)
        \/ LambdaFunc(t)
        \/ FuncRead(t)
        \/ FuncWrite(t)
        \/ FuncReturn(t)
        \/ SlurpLambda(t)

Spec == Init /\ [][Next]_vars

\* Several call sites invoke the action of one shared stream-composed Filter,
\* each any number of times, their steps interleaved.
InitConc ==
    /\ optimized = FALSE
    /\ pipeline \in ConcPipelines
    /\ heap = InitHeap
    /\ site = [t \in Sites |-> IdleSite]

NextConc ==
    \E t \in Sites :
        \/ Invoke(t)
        \/ PipedBytesIO(t)
        \/ PipedCallLeft(t)
        \/ PipedSeek(t)
        \/ PipedCallRight(t)
        \/ PipedReturn(t)
        \/ LambdaFunc(t)
        \/ FuncRead(t)
        \/ FuncWrite(t)
        \/ FuncReturn(t)

SpecConc == InitConc /\ [][NextConc]_vars

\* One call site invokes the action of a three-stage stream pipeline, built in
\* either grouping.
InitAssoc ==
    /\ optimized = FALSE
    /\ pipeline \in Triples
    /\ heap = InitHeap
    /\ site = [t \in Sites |-> IdleSite]

NextAssoc ==
    \E t \in {"s1"} :
        \/ CallThunk(t)
        \/ PipedBytesIO(t)
        \/ PipedCallLeft(t)
        \/ PipedSeek(t)
        \/ PipedCallRight(t)
        \/ PipedReturn(t)
        \/ LambdaFunc(t)
        \/ FuncRead(t)
        \/ FuncWrite(t)
        \/ FuncReturn(t)

SpecAssoc == InitAssoc /\ [][NextAssoc]_vars

\* ------------------------------------------------------------------ claims

S1 == site["s1"]

IsPrefix(p, q) == Len(p) <= Len(q) /\ SubSeq(q, 1, Len(p)) = p

\* The bytes the write events tr[lo..hi] wrote to the stream with handle h.
RECURSIVE Written(_, _, _, _)
Written(tr, h, lo, hi) ==
    IF lo > hi THEN <<>>
    ELSE Written(tr, h, lo, hi - 1)
         \o (IF tr[hi].ev = "write" /\ tr[hi].h = h THEN tr[hi].data ELSE <<>>)

IsFuncEvent(e) == e.ev = "func"
IsTopThunkEvent(e) == e.ev = "thunk" /\ e.path = <<>>

InputRequired(f) == f.input.required_ /\ f.input.type # "none"
NotRun(s) == s.status = "done" /\ s.trace = <<>> /\ s.stack = <<>>

C2_Materializing ==
    \A t \in Sites :
        LET tr == site[t].trace
        IN  \A i \in DOMAIN tr :
                tr[i].ev = "BytesIO" =>
                    LET l == Append(tr[i].path, "L")
                        r == Append(tr[i].path, "R")
                    IN  /\ \A j, k \in DOMAIN tr :
                              (IsPrefix(l, tr[j].path) /\ IsPrefix(r, tr[k].path)) => j < k
                        /\ \A k \in DOMAIN tr :
                              (k > i /\ tr[k].ev = "read" /\ tr[k].h = tr[i].h
                                     /\ IsPrefix(r, tr[k].path))
                              => tr[k].data = Written(tr, tr[i].h, i, Len(tr))

\* The left stage wrote b1 then b2 in two writes, and the right stage read b1 b2.
C2_Witness ==
    \E i, k \in DOMAIN S1.trace :
        /\ S1.status = "done"
        /\ S1.trace[i].ev = "BytesIO"
        /\ k > i
        /\ S1.trace[k].ev = "read"
        /\ S1.trace[k].h = S1.trace[i].h
        /\ S1.trace[k].data = <<97, NL>>
        /\ Written(S1.trace, S1.trace[i].h, i, k) = <<97, NL>>

\* C3 as claimed: invoking the action of a wrapper's Filter with (source, sink)
\* calls the wrapped function exactly once, with the source first iff the input
\* kind is not none, then the sink iff the output kind is stream, then the
\* caller's arguments, in every one of the four shapes.
C3_ArgumentShapes ==
    (S1.op = "thunk" /\ S1.status = "done" /\ S1.a.thunk.k = "lambda") =>
        LET calls == SelectSeq(S1.trace, IsFuncEvent)
            args == S1.a.thunk.args
        IN  /\ S1.outcome.tag = "return"
            /\ Len(calls) = 1
            /\ calls[1].argv =
                   (IF S1.a.input.type # "none" THEN <<S1.src>> ELSE <<>>)
                   \o (IF S1.a.output.type = "stream" THEN <<S1.sink>> ELSE <<>>)
                   \o [i \in 1..Len(args) |-> Arg(args[i])]

\* The same for the three shapes that pass a handle.
C3_ShapesWithHandle ==
    (S1.op = "thunk" /\ S1.a.thunk.k = "lambda" /\ S1.a.thunk.shape # "neither")
        => C3_ArgumentShapes

\* s is r followed by newlines only, and r does not end in a newline.
IsStripped(s, r) ==
    \E k \in 0..Len(s) :
        /\ r = SubSeq(s, 1, Len(s) - k)
        /\ \A i \in (Len(s) - k + 1)..Len(s) : s[i] = NL
        /\ (r = <<>> \/ r[Len(r)] # NL)

\* The bytes the slurped Filter's action wrote to the sink slurp gave it.
SlurpedBytes == Written(S1.trace, S1.trace[2].h, 2, Len(S1.trace))

\* C4: slurp of a stream-output Filter whose input is not required returns the
\* bytes its action wrote, less the maximal suffix of newlines.
C4_SlurpStrips ==
    (S1.op = "slurp" /\ S1.status = "done"
        /\ S1.a.output.type = "stream" /\ ~InputRequired(S1.a)) =>
        /\ S1.trace[1] = [ev |-> "thunk", who |-> "piped", path |-> <<>>,
                          thunk |-> [k |-> "piped", left |-> S1.a, right |-> slurp_filter],
                          input |-> None, output |-> None]
        /\ S1.trace[2].ev = "BytesIO"
        /\ S1.trace[3].ev = "thunk"
        /\ S1.trace[3].thunk = S1.a.thunk
        /\ S1.trace[3].output = Stream(S1.trace[2].h)
        /\ S1.outcome.tag = "return"
        /\ S1.outcome.value.t = "bytes"
        /\ IsStripped(SlurpedBytes, S1.outcome.value.b)

C4_Witness ==
    /\ S1.op = "slurp"
    /\ S1.status = "done"
    /\ S1.outcome = Returned(PyBytes(<<NL, 97>>))
    /\ SlurpedBytes = <<NL, 97, NL, NL>>

\* C5: slurp of a Filter whose output kind is not stream raises RuntimeError and
\* runs no action.
C5_SlurpNeedsStream ==
    (S1.op = "slurp" /\ S1.a.output.type # "stream") =>
        /\ S1.outcome = Raised("RuntimeError")
        /\ NotRun(S1)

C5_Witness ==
    /\ S1.op = "slurp"
    /\ S1.a.output.type = "bytes"
    /\ S1.a.thunk.k = "lambda"
    /\ S1.outcome = Raised("RuntimeError")

\* C6: to_stdout raises RuntimeError, runs no action and writes nothing to
\* standard output when the input is required or the output kind is not stream;
\* otherwise it runs the action exactly once, with no source and standard
\* output as the sink.
C6_ToStdout ==
    S1.op = "to_stdout" =>
        IF InputRequired(S1.a) \/ S1.a.output.type # "stream"
        THEN /\ S1.outcome = Raised("RuntimeError")
             /\ NotRun(S1)
             /\ heap[STDOUT].data = <<>>
        ELSE /\ Len(SelectSeq(S1.trace, IsTopThunkEvent)) = 1
             /\ S1.trace[1] = [ev |-> "thunk", who |-> ThunkName(S1.a.thunk), path |-> <<>>,
                               thunk |-> S1.a.thunk, input |-> None,
                               output |-> Stream(STDOUT)]
             /\ S1.status = "done" => S1.outcome = Returned(None)

C6_Witness ==
    /\ S1.op = "to_stdout"
    /\ S1.status = "done"
    /\ S1.outcome = Returned(None)
    /\ heap[STDOUT].data = <<97, NL>>

\* C7: piping two Filters joined at kind iter, and invoking a Filter whose input
\* is not required and whose output is a required stream, both raise
\* NotImplementedError, run no action and yield no Filter or value.
C7_ReservedPaths ==
    /\ (S1.op = "or" /\ S1.a.output.type = "iter" /\ S1.other.input.type = "iter") =>
          /\ S1.outcome = Raised("NotImplementedError")
          /\ S1.outcome # Raised("RuntimeError")
          /\ NotRun(S1)
          /\ pipeline = S1.a
    /\ (S1.op = "call" /\ ~InputRequired(S1.a)
            /\ S1.a.output.type = "stream" /\ S1.a.output.required_) =>
          /\ S1.outcome = Raised("NotImplementedError")
          /\ S1.outcome # Raised("RuntimeError")
          /\ NotRun(S1)

C7_Witness ==
    /\ S1.op = "call"
    /\ ~InputRequired(S1.a)
    /\ S1.a.output = IoSpec("stream", TRUE)
    /\ S1.outcome = Raised("NotImplementedError")

\* C8: invoking a Filter whose input is required raises RuntimeError before any
\* action runs, whatever its output spec; a Filter whose input kind is none is
\* never refused with RuntimeError, whatever its stored flag.
C8_InvokeNeedsNoInput ==
    S1.op = "call" =>
        /\ InputRequired(S1.a) => (S1.outcome = Raised("RuntimeError") /\ NotRun(S1))
        /\ S1.a.input.type = "none" => S1.outcome # Raised("RuntimeError")

C8_Witness ==
    /\ S1.op = "call"
    /\ InputRequired(S1.a)
    /\ S1.a.output = IoSpec("stream", TRUE)
    /\ S1.outcome = Raised("RuntimeError")

\* The intermediate buffers the frames of a call stack hold.
LiveBufs(s) == {s.stack[i].buf.h : i \in {j \in DOMAIN s.stack : s.stack[j].buf.t = "stream"}}

\* C9: whatever the interleaving and however many invocations came before, the
\* right stage of an invocation reads exactly what the left stage of the same
\* invocation wrote (its own source followed by its arguments) into a buffer
\* that invocation allocated; no two running invocations hold the same buffer;
\* and the shared Filter stays the one every invocation was started on.
C9_Independent ==
    \A t \in Sites :
        LET s == site[t]
            tr == s.trace
            left == pipeline.thunk.left
            src == IF s.src.t = "stream" THEN heap[s.src.h].data ELSE <<>>
        IN  /\ s.n > 0 => s.a = pipeline
            /\ \A u \in Sites \ {t} : LiveBufs(s) \cap LiveBufs(site[u]) = {}
            /\ \A k \in DOMAIN tr :
                  (tr[k].ev = "read" /\ tr[k].path = <<"R">>) =>
                      /\ tr[2].ev = "BytesIO"
                      /\ tr[k].h = tr[2].h
                      /\ tr[k].data = Written(tr, tr[k].h, 2, k)
                      /\ tr[k].data = src \o left.thunk.args

\* Two invocations in flight, the second of s1 among them, each with bytes in
\* its own buffer that its right stage has not read yet, from different sources.
C9_Witness ==
    /\ site["s1"].n = 2
    /\ \A t \in Sites :
          /\ site[t].status = "running"
          /\ site[t].src.t = "stream"
          /\ \E h \in LiveBufs(site[t]) : heap[h].data # <<>> /\ heap[h].pos = Len(heap[h].data)
    /\ heap[site["s1"].src.h].data # heap[site["s2"].src.h].data

RECURSIVE LeafSet(_)
LeafSet(f) ==
    IF f.thunk.k = "piped" THEN LeafSet(f.thunk.left) \cup LeafSet(f.thunk.right) ELSE {f}

\* The stage of the pipeline that wraps the function called name.
StageOf(name) == CHOOSE x \in LeafSet(pipeline) : x.thunk.self.func = name
Rank(who) == IF who = "f" THEN 1 ELSE IF who = "g" THEN 2 ELSE IF who = "h" THEN 3 ELSE 0
IsStageEvent(e) == Rank(e.who) > 0
RECURSIVE Names(_)
Names(tr) == IF tr = <<>> THEN <<>> ELSE <<tr[1].who>> \o Names(Tail(tr))

\* C10: for A wrapping f, B wrapping g, C wrapping h, joined at stream kinds,
\* (A | B) | C and A | (B | C) are both legal, with A's input spec and C's output
\* spec, and made of A, B and C as they were; the action of either runs f, then
\* g, then h, each once and to completion before the next, g reading all f
\* wrote and h all g wrote, and both end with the same result and sink content.
C10_Associative ==
    LET A == StageOf("f")
        B == StageOf("g")
        C == StageOf("h")
        ab == Filter__or__(A, B)
        bc == Filter__or__(B, C)
        tr == S1.trace
        X == IF S1.src.t = "stream" THEN heap[S1.src.h].data ELSE <<>>
        outA == X \o A.thunk.args
        outB == outA \o B.thunk.args
        outC == outB \o C.thunk.args
    IN  /\ ab.tag = "return"
        /\ bc.tag = "return"
        /\ LET l == Filter__or__(ab.value, C)
               r == Filter__or__(A, bc.value)
           IN  /\ l.tag = "return"
               /\ r.tag = "return"
               /\ l.value.input = A.input /\ l.value.output = C.output
               /\ r.value.input = A.input /\ r.value.output = C.output
               /\ ab.value.thunk = [k |-> "piped", left |-> A, right |-> B]
               /\ bc.value.thunk = [k |-> "piped", left |-> B, right |-> C]
               /\ l.value.thunk = [k |-> "piped", left |-> ab.value, right |-> C]
               /\ r.value.thunk = [k |-> "piped", left |-> A, right |-> bc.value]
               /\ pipeline \in {l.value, r.value}
        /\ \A i, j \in DOMAIN tr :
              (i < j /\ IsStageEvent(tr[i]) /\ IsStageEvent(tr[j]))
              => Rank(tr[i].who) <= Rank(tr[j].who)
        /\ IsPrefix(Names(SelectSeq(tr, IsFuncEvent)), <<"f", "g", "h">>)
        /\ \A k \in DOMAIN tr :
              tr[k].ev = "read" =>
                  tr[k].data = (IF tr[k].who = "f" THEN X
                                ELSE IF tr[k].who = "g" THEN outA ELSE outB)
        /\ S1.status = "done" =>
              /\ Names(SelectSeq(tr, IsFuncEvent)) = <<"f", "g", "h">>
              /\ S1.outcome = Returned(FuncResult(C.output.type, outC))
              /\ S1.sink.t = "stream" =>
                    heap[S1.sink.h].data = (IF C.output.type = "stream" THEN outC ELSE <<>>)

\* A run of (A | B) | C that is over, with bytes from the source and from each
\* stage in the sink.
C10_Witness ==
    /\ S1.status = "done"
    /\ pipeline.thunk.left.thunk.k = "piped"
    /\ S1.sink.t = "stream"
    /\ heap[S1.sink.h].data = <<NL, 97, 97, NL, NL, NL, 97>>

====
